---- MODULE Spec2Model ----
(***************************************************************************)
(* The in-page navigation engine of script.js: the section router          *)
(* (switchSection), the hashchange adapter (handleHashChange), the         *)
(* click handlers that call the router and the arrow-key navigator,        *)
(* together with the browser session history they write to.                *)
(*                                                                         *)
(* A URL fragment is a sequence of tokens: <<>> is the empty               *)
(* location.hash, <<"#", id>> is "#id".                                    *)
(***************************************************************************)
EXTENDS Integers, Sequences, FiniteSets, TLC

\* ------------------------------------------------------------------ bounds
\* Most content sections a page holds.
MaxSections == 3
\* Entries the session history keeps before the oldest one is evicted.
MaxHist == 2
\* Most hashchange events queued and not yet dispatched.
MaxPending == 1
\* Pending timeouts of one kind.
MaxTimers == 1

\* ------------------------------------------------------------- the document
\* Ids of .content-section elements in document order; a page holds a prefix.
SectionPool == <<"hero", "demo", "about", "features", "how-it-works", "setup">>

\* script.js:9-15; "about" above is a panel the mapping does not declare.
channelNames ==
    [id \in {"hero", "demo", "features", "how-it-works", "setup"} |->
        CASE id = "hero" -> "# welcome"
          [] id = "demo" -> "# live-demo"
          [] id = "features" -> "# features"
          [] id = "how-it-works" -> "# how-it-works"
          [] id = "setup" -> "# quick-setup"]

\* The a[href^="#"] anchors of the page, by href: the demo link and a link
\* to an id no element carries.
AnchorHrefs == {<<"#", "demo">>, <<"#", "nosuch">>}

\* Fragments a user can type into the address bar.
TypedFragments == {"demo", "nosuch", "channel-name"}

\* Fragments the page can be loaded with.
LoadFragments == {<<>>, <<"#", "demo">>, <<"#", "nosuch">>}

Keys == {"ArrowLeft", "ArrowRight"}

\* Offsets the user can scroll the message container to; the code only ever
\* writes 0, so one non-zero offset stands for all.
ScrollOffsets == {120}

NoIndex == -1

\* script.js:152
konamiSequence ==
    <<"ArrowUp", "ArrowUp", "ArrowDown", "ArrowDown", "ArrowLeft", "ArrowRight",
      "ArrowLeft", "ArrowRight", "b", "a">>

\* script.js:156: the matcher keeps the last 10 keys.
KonamiWindow == 10

\* A key that is not part of the sequence.
WrongKey == "x"

\* script.js:186 and 197: the widest viewport that shows the menu toggle.
Breakpoint == 768

\* Viewport widths the window can take.
Widths == {Breakpoint, Breakpoint + 1}

\* The .workflow-step elements, by index; the .fade-in-up elements; the
\* .btn-primary elements; the header buttons.
WorkflowSteps == {0, 1}
FadeEls == {"fade-a", "fade-b"}
PrimaryButtons == {1}
HeaderButtons == {"Star on GitHub", "Fork"}

\* The setTimeout callbacks of the page: the step reveals (line 123), the
\* typing-indicator restart (106), the body-animation reset (161) and the
\* sparkle removal (233).
TypingTimer == <<"typing", 0>>
RainbowTimer == <<"rainbow", 0>>
TimerKinds ==
    {<<"step", i>> : i \in WorkflowSteps} \cup {TypingTimer, RainbowTimer}
        \cup {<<"sparkle", b>> : b \in PrimaryButtons}

VARIABLES
    sections,      \* Seq of ids: querySelectorAll('.content-section')
    channelNameEl, \* BOOLEAN: getElementById('channel-name') is not null
    messagesEl,    \* BOOLEAN: querySelector('.messages-container') is not null
    itemActive,    \* data-section values of the channel items carrying 'active'
    sectActive,    \* ids of the content sections carrying 'active'
    otherActive,   \* ids of other elements carrying 'active'
    label,         \* channelNameEl.textContent
    scrollTop,     \* .messages-container scrollTop
    hist,          \* session history: Seq of fragments
    pos,           \* index of the current entry in hist
    pending,       \* queued hashchange events
    pc,            \* "loading" before the DOMContentLoaded callback; then
                   \* "ready", or "aborted" when the callback threw at line 68
    ev,            \* the last event dispatched: [op, key, cur]
    calls,         \* ids passed to switchSection while handling ev
    threw,         \* a listener of ev ended with an uncaught TypeError
    run,           \* [origin, count]: the current streak of ArrowRight presses
    effects,       \* the effects of the last switchSection call, in order
    konamiCode,    \* the keys the sequence matcher holds
    bodyAnimation, \* document.body.style.animation
    timers,        \* pending setTimeout callbacks: how many of each kind
    typingAnimation, \* style.animation of the demo's .typing-indicator
    stepStyle,     \* inline style of each .workflow-step
    fadeStyle,     \* the .fade-in-up elements whose inline style is at rest
    sidebarOpen,   \* .sidebar carries 'open'
    toggleDisplay, \* style.display of the menu toggle ("absent" before it exists)
    innerWidth,    \* window.innerWidth
    sparkles,      \* the .btn-primary elements holding a .sparkle child
    opened,        \* the URL of the last window.open
    typist,        \* the typist's place in an attempt at the sequence, the place
                   \* of its wrong key, and whether an earlier attempt failed
    fired,         \* the last key press started the body animation
    journey        \* "free"; in a Back journey "browsing", then "backing" once
                   \* the user presses nothing but Back

vars == <<sections, channelNameEl, messagesEl, itemActive, sectActive,
          otherActive, label, scrollTop, hist, pos, pending, pc, ev, calls,
          threw, run, effects, konamiCode, bodyAnimation, timers,
          typingAnimation, stepStyle, fadeStyle, sidebarOpen, toggleDisplay,
          innerWidth, sparkles, opened, typist, fired, journey>>

dom == <<sections, channelNameEl, messagesEl>>

\* What the handlers of lines 71-238 keep, and the typist.
cosmetic == <<konamiCode, bodyAnimation, timers, typingAnimation, stepStyle,
              fadeStyle, sidebarOpen, toggleDisplay, innerWidth, sparkles,
              opened, typist, fired>>

\* ------------------------------------------------------------ DOM lookups
SectionIds == {sections[i] : i \in 1..Len(sections)}

\* data-section values of the .channel-item[data-section] elements: the page
\* pairs every content section with one channel item.
channelItems == SectionIds

\* document.getElementById(id) finds an element (of any kind).
getElementById(id) ==
    id \in SectionIds \/ (id = "channel-name" /\ channelNameEl)

\* Array.prototype.indexOf over Array.from(sections), 0-based, -1 on a miss.
indexOf(id) ==
    IF id \in SectionIds
    THEN (CHOOSE i \in 1..Len(sections) : sections[i] = id) - 1
    ELSE NoIndex

\* document.querySelector('.content-section.active'): first in document order.
currentSection(active) ==
    IF active \cap SectionIds = {}
    THEN "null"
    ELSE sections[CHOOSE i \in 1..Len(sections) :
                     /\ sections[i] \in active
                     /\ \A j \in 1..(i - 1) : sections[j] \notin active]

\* The JavaScript % operator: the result takes the sign of the dividend.
JsRem(a, n) == IF a >= 0 THEN a % n ELSE 0 - ((0 - a) % n)

\* window.location.hash
LocationHash == hist[pos]

\* String.prototype.slice(1) on a fragment: drops the leading '#'.
Slice1(h) == IF h = <<>> THEN <<>> ELSE Tail(h)

\* The id a sliced fragment spells ("" when nothing is left).
IdOf(t) == IF t = <<>> THEN "" ELSE t[1]

\* ------------------------------------------------------------ the router
View ==
    [item |-> itemActive, sect |-> sectActive, other |-> otherActive,
     label |-> label, scroll |-> scrollTop, hist |-> hist, pos |-> pos,
     threw |-> FALSE, log |-> <<>>,
     konami |-> konamiCode, body |-> bodyAnimation, timers |-> timers,
     typing |-> typingAnimation, steps |-> stepStyle, fade |-> fadeStyle,
     sidebar |-> sidebarOpen, toggle |-> toggleDisplay, width |-> innerWidth,
     sparkles |-> sparkles, opened |-> opened, fired |-> FALSE]

\* Mutant: the sections loop of line 21 is missing.
ClearActiveItemsOnly(st) == [st EXCEPT !.item = {}]

\* script.js:20-21
ClearActive(st) ==
    [st EXCEPT !.item = {}, !.sect = {}, !.log = Append(@, "clear")]

\* Mutant: the channel item is never marked.
MarkItemSkipped(st, id) == st

\* script.js:24-27
MarkItem(st, id) ==
    IF id \in channelItems
    THEN [st EXCEPT !.item = @ \cup {id}, !.log = Append(@, "item")]
    ELSE st

\* Mutant: the section found is not marked, only the container is scrolled.
MarkSectionSkipped(st, id) ==
    IF getElementById(id)
    THEN IF messagesEl THEN [st EXCEPT !.scroll = 0] ELSE [st EXCEPT !.threw = TRUE]
    ELSE st

\* Mutant: the scroll offset is flipped between top and 120 instead of reset.
MarkSectionScrollFlips(st, id) ==
    IF getElementById(id)
    THEN LET s1 == [st EXCEPT !.sect = IF id \in SectionIds THEN @ \cup {id} ELSE @,
                              !.other = IF id \in SectionIds THEN @ ELSE @ \cup {id},
                              !.log = Append(@, "panel")]
         IN  IF messagesEl
             THEN [s1 EXCEPT !.scroll = IF @ = 0 THEN 120 ELSE 0,
                             !.log = Append(@, "scroll")]
             ELSE [s1 EXCEPT !.threw = TRUE]
    ELSE st

\* script.js:30-35
MarkSection(st, id) ==
    IF getElementById(id)
    THEN LET marked == IF id \in SectionIds
                       THEN [st EXCEPT !.sect = @ \cup {id},
                                       !.log = Append(@, "panel")]
                       ELSE [st EXCEPT !.other = @ \cup {id},
                                       !.log = Append(@, "panel")]
         IN  IF messagesEl
             THEN [marked EXCEPT !.scroll = 0, !.log = Append(@, "scroll")]
             ELSE [marked EXCEPT !.threw = TRUE]
    ELSE st

\* script.js:38-40
UpdateLabel(st, id) ==
    IF id \in DOMAIN channelNames
    THEN IF channelNameEl
         THEN [st EXCEPT !.label = channelNames[id], !.log = Append(@, "label")]
         ELSE [st EXCEPT !.threw = TRUE]
    ELSE st

\* Entries the session history keeps: a Back journey keeps one more, so that
\* an entry pushed again by the hashchange listener has two entries below it.
Capacity == IF journey = "free" THEN MaxHist ELSE MaxHist + 1

\* The browser adds a session-history entry after the current one: the
\* forward entries are dropped, and the oldest entry is evicted once the
\* history holds Capacity entries.
AddEntry(st, frag) ==
    LET kept == SubSeq(st.hist, 1, st.pos)
        all  == Append(kept, frag)
    IN  IF Len(all) <= Capacity
        THEN [st EXCEPT !.hist = all, !.pos = Len(all)]
        ELSE [st EXCEPT !.hist = Tail(all), !.pos = Capacity]

\* script.js:43
PushState(st, id) ==
    [AddEntry(st, <<"#", id>>) EXCEPT !.log = Append(@, "push")]

\* Mutant: the markers are cleared after the new ones are set.
switchSectionClearLast(st, id) ==
    LET s0 == [st EXCEPT !.threw = FALSE, !.log = <<>>]
        s3 == ClearActive(MarkSection(MarkItem(s0, id), id))
        s4 == UpdateLabel(s3, id)
        r  == IF s3.threw THEN s3
              ELSE IF s4.threw THEN s4
              ELSE PushState(s4, id)
    IN  [r EXCEPT !.threw = st.threw \/ r.threw]

\* script.js:18-44; a TypeError ends the call where it is raised.
switchSection(st, id) ==
    LET s0 == [st EXCEPT !.threw = FALSE, !.log = <<>>]
        s3 == MarkSection(MarkItem(ClearActive(s0), id), id)
        s4 == UpdateLabel(s3, id)
        r  == IF s3.threw THEN s3
              ELSE IF s4.threw THEN s4
              ELSE PushState(s4, id)
    IN  [r EXCEPT !.threw = st.threw \/ r.threw]

\* Mutant: the existence check of line 58 is missing.
handleHashChangeUnchecked(st) ==
    LET hash == Slice1(st.hist[st.pos])
    IN  IF hash # <<>> THEN switchSection(st, IdOf(hash)) ELSE st

\* Mutant: every non-empty fragment is answered with the first section.
handleHashChangeToFirst(st) ==
    IF st.hist[st.pos] # <<>> THEN switchSection(st, sections[1]) ELSE st

\* Mutant: the fragment is looked up with its leading '#'.
handleHashChangeNoSlice(st) ==
    LET hash == st.hist[st.pos]
    IN  IF hash # <<>> /\ getElementById(IdOf(hash))
        THEN switchSection(st, IdOf(hash))
        ELSE st

\* script.js:56-61
handleHashChange(st) ==
    LET hash == Slice1(st.hist[st.pos])
    IN  IF hash # <<>> /\ getElementById(IdOf(hash))
        THEN switchSection(st, IdOf(hash))
        ELSE st

HashCalls ==
    LET hash == Slice1(LocationHash)
    IN  IF hash # <<>> /\ getElementById(IdOf(hash)) THEN <<IdOf(hash)>> ELSE <<>>

\* The state a handler leaves behind.
Commit(st) ==
    /\ itemActive' = st.item
    /\ sectActive' = st.sect
    /\ otherActive' = st.other
    /\ label' = st.label
    /\ scrollTop' = st.scroll
    /\ hist' = st.hist
    /\ pos' = st.pos
    /\ threw' = st.threw
    /\ effects' = st.log
    /\ konamiCode' = st.konami
    /\ bodyAnimation' = st.body
    /\ timers' = st.timers
    /\ typingAnimation' = st.typing
    /\ stepStyle' = st.steps
    /\ fadeStyle' = st.fade
    /\ sidebarOpen' = st.sidebar
    /\ toggleDisplay' = st.toggle
    /\ innerWidth' = st.width
    /\ sparkles' = st.sparkles
    /\ opened' = st.opened
    /\ fired' = st.fired

NoRun == [origin |-> "null", count |-> 0]

Event(op, key, cur) == [op |-> op, key |-> key, cur |-> cur]

\* ------------------------------------------------------------------ Init
NoTypist == [pos |-> 0, wrongAt |-> 0, failed |-> FALSE, start |-> "null"]

\* The document as rendered in a viewport of width w, before any script runs.
Rendered(w) ==
    /\ \E n \in 1..MaxSections : sections = SubSeq(SectionPool, 1, n)
    /\ \E missing \in {"none", "channel-name", "messages-container"} :
          /\ channelNameEl = (missing # "channel-name")
          /\ messagesEl = (missing # "messages-container")
    /\ \E a \in {{}} \cup {{s} : s \in SectionIds} :
          /\ itemActive = a
          /\ sectActive = a
          /\ label = IF ~channelNameEl THEN ""
                     ELSE IF a \subseteq DOMAIN channelNames /\ a # {}
                     THEN channelNames[CHOOSE s \in a : TRUE]
                     ELSE "# channel"
    /\ otherActive = {}
    /\ scrollTop = 0
    /\ \E f \in LoadFragments : hist = <<f>>
    /\ pos = 1
    /\ pending = 0
    /\ pc = "loading"
    /\ ev = Event("render", "", NoIndex)
    /\ calls = <<>>
    /\ threw = FALSE
    /\ run = NoRun
    /\ effects = <<>>
    /\ konamiCode = <<>>
    /\ bodyAnimation = ""
    /\ timers = [t \in TimerKinds |-> 0]
    /\ typingAnimation = ""
    /\ stepStyle = [i \in WorkflowSteps |-> "css"]
    /\ fadeStyle = {}
    /\ sidebarOpen = FALSE
    /\ toggleDisplay = "absent"
    /\ innerWidth = w
    /\ sparkles = {}
    /\ opened = ""
    /\ typist = NoTypist
    /\ fired = FALSE

Init ==
    /\ Rendered(Breakpoint + 1)
    /\ journey = "free"

\* ---------------------------------------------------------------- actions
\* script.js:118-128 and 168-201: what the rest of the DOMContentLoaded
\* callback does to the page at once: the workflow steps are hidden and their
\* reveal timers started, and the menu toggle is created.
Startup(st) ==
    [st EXCEPT !.steps = [i \in WorkflowSteps |-> "hidden"],
               !.timers = [t \in TimerKinds |->
                              IF t[1] = "step" THEN @[t] + 1 ELSE @[t]],
               !.toggle = IF st.width <= Breakpoint THEN "block" ELSE "none"]

\* script.js:2-290: the DOMContentLoaded callback. A TypeError raised by the
\* call of line 68 ends the callback there: the listeners of lines 47-64 are
\* registered, those of lines 71-259 are not.
Load ==
    LET routed == IF LocationHash # <<>> THEN handleHashChange(View) ELSE View
    IN  /\ pc = "loading"
        /\ pc' = IF routed.threw THEN "aborted" ELSE "ready"
        /\ Commit(IF routed.threw THEN routed ELSE Startup(routed))
        /\ calls' = (IF LocationHash # <<>> THEN HashCalls ELSE <<>>)
        /\ ev' = Event("load", "", NoIndex)
        /\ run' = NoRun
        /\ UNCHANGED <<dom, journey, pending, typist>>

\* script.js:47-53
ClickChannelItem(id) ==
    /\ pc # "loading"
    /\ id \in channelItems
    /\ Commit(switchSection(View, id))
    /\ calls' = <<id>>
    /\ ev' = Event("click", "", NoIndex)
    /\ run' = NoRun
    /\ UNCHANGED <<dom, journey, pending, pc, typist>>

\* script.js:64 with 56-61: one queued hashchange event is dispatched.
HashChange ==
    /\ pc # "loading"
    /\ pending > 0
    /\ pending' = pending - 1
    /\ Commit(handleHashChange(View))
    /\ calls' = HashCalls
    /\ ev' = Event("hashchange", "", NoIndex)
    /\ run' = NoRun
    /\ UNCHANGED <<dom, journey, pc, typist>>

\* script.js:88-94 and 204-213: the click listeners of one in-page anchor, in
\* registration order. The anchor with href "#demo" is demoBtn and has both.
\* An href of "#" alone is left to the browser, which navigates to the empty
\* fragment; so is every anchor of a page whose callback was aborted before
\* the listeners were registered.
AnchorCalls(href) ==
    IF pc = "aborted" THEN <<>>
    ELSE (IF href = <<"#", "demo">> THEN <<"demo">> ELSE <<>>)
           \o (IF href[1] = "#" /\ Len(href) > 1
               THEN <<IdOf(Slice1(href))>> ELSE <<>>)

\* The fragment the browser navigates to when a click on the anchor is not
\* prevented.
AnchorFragment(href) == IF Len(href) > 1 THEN href ELSE <<>>

RECURSIVE CallAll(_, _)
CallAll(st, ids) ==
    IF ids = <<>> THEN st ELSE CallAll(switchSection(st, Head(ids)), Tail(ids))

ClickAnchor(href) ==
    /\ pc # "loading"
    /\ href \in AnchorHrefs
    /\ IF AnchorCalls(href) # <<>>
       THEN /\ Commit(CallAll(View, AnchorCalls(href)))
            /\ UNCHANGED pending
       ELSE IF LocationHash = AnchorFragment(href)
       THEN /\ Commit(View)
            /\ UNCHANGED pending
       ELSE /\ pending < MaxPending
            /\ Commit(AddEntry(View, AnchorFragment(href)))
            /\ pending' = pending + 1
    /\ calls' = AnchorCalls(href)
    /\ ev' = Event("click", "", NoIndex)
    /\ run' = NoRun
    /\ UNCHANGED <<dom, journey, pc, typist>>

\* Mutant: the two arrow keys are swapped.
nextIndexSwapped(key, currentIndex, n) ==
    IF key = "ArrowRight"
    THEN JsRem(currentIndex - 1 + n, n)
    ELSE JsRem(currentIndex + 1, n)

\* Mutant: the index is not wrapped.
nextIndexNoWrap(key, currentIndex, n) ==
    IF key = "ArrowLeft" THEN currentIndex - 1 ELSE currentIndex + 1

\* Mutant: with nothing active (-1) the step starts from the first section.
nextIndexFromFirst(key, currentIndex, n) ==
    LET i == IF currentIndex < 0 THEN 0 ELSE currentIndex
    IN  IF key = "ArrowLeft" THEN JsRem(i - 1 + n, n) ELSE JsRem(i + 1, n)

\* Mutant: ArrowLeft stays on the current section.
nextIndexLeftSticks(key, currentIndex, n) ==
    IF key = "ArrowLeft" THEN currentIndex ELSE JsRem(currentIndex + 1, n)

\* script.js:249 and 251
nextIndex(key, currentIndex, n) ==
    IF key = "ArrowLeft"
    THEN JsRem(currentIndex - 1 + n, n)
    ELSE JsRem(currentIndex + 1, n)

\* script.js:241-259: the keyboard-navigation keydown listener.
KeyDown(key) ==
    LET currentIndex == indexOf(currentSection(sectActive))
        n == Len(sections)
        arrow == key \in {"ArrowLeft", "ArrowRight"}
        nxt == nextIndex(key, currentIndex, n)
        found == arrow /\ nxt + 1 \in 1..n
    IN  /\ pc = "ready"
        /\ key \in Keys
        /\ Commit(IF found THEN switchSection(View, sections[nxt + 1]) ELSE View)
        /\ calls' = (IF found THEN <<sections[nxt + 1]>> ELSE <<>>)
        /\ ev' = Event("keydown", key, IF arrow THEN currentIndex ELSE NoIndex)
        /\ run' = IF key # "ArrowRight" THEN NoRun
                  ELSE IF run.count = 0 \/ run.count >= n
                  THEN [origin |-> currentSection(sectActive), count |-> 1]
                  ELSE [run EXCEPT !.count = @ + 1]
        /\ UNCHANGED <<dom, journey, pending, pc, typist>>

\* history.back() / history.forward() by the user: the browser moves to the
\* neighbouring entry and queues a hashchange when the fragment differs.
Traverse(d) ==
    /\ pc # "loading"
    /\ d \in {-1, 1}
    /\ pos + d \in 1..Len(hist)
    /\ LET fire == IF hist[pos + d] # hist[pos] THEN 1 ELSE 0
       IN  /\ pending + fire <= MaxPending
           /\ pending' = pending + fire
    /\ pos' = pos + d
    /\ calls' = <<>>
    /\ threw' = FALSE
    /\ effects' = <<>>
    /\ ev' = Event(IF d = -1 THEN "back" ELSE "forward", "", NoIndex)
    /\ run' = NoRun
    /\ UNCHANGED <<dom, journey, cosmetic, itemActive, sectActive, otherActive, label,
                   scrollTop, hist, pc>>

\* The user types another fragment into the address bar: a new entry, and a
\* hashchange is queued.
EditFragment(f) ==
    /\ pc # "loading"
    /\ f \in TypedFragments
    /\ <<"#", f>> # LocationHash
    /\ pending < MaxPending
    /\ hist' = AddEntry(View, <<"#", f>>).hist
    /\ pos' = AddEntry(View, <<"#", f>>).pos
    /\ pending' = pending + 1
    /\ calls' = <<>>
    /\ threw' = FALSE
    /\ effects' = <<>>
    /\ ev' = Event("edit", "", NoIndex)
    /\ run' = NoRun
    /\ UNCHANGED <<dom, journey, cosmetic, itemActive, sectActive, otherActive, label,
                   scrollTop, pc>>

\* The user scrolls the message container.
Scroll(y) ==
    /\ pc # "loading"
    /\ messagesEl
    /\ y \in ScrollOffsets
    /\ y # scrollTop
    /\ scrollTop' = y
    /\ calls' = <<>>
    /\ threw' = FALSE
    /\ effects' = <<>>
    /\ ev' = Event("scroll", "", NoIndex)
    /\ run' = NoRun
    /\ UNCHANGED <<dom, journey, cosmetic, itemActive, sectActive, otherActive, label,
                   hist, pos, pending, pc>>

\* ------------------------------------------- the handlers of lines 71-238
AddTimer(st, t) == [st EXCEPT !.timers[t] = @ + 1]

\* script.js:75-85: the star and fork buttons.
HeaderClick(st, b) ==
    [st EXCEPT !.opened = IF b = "Star on GitHub"
                          THEN "https://github.com/zautner/vibeconnect"
                          ELSE "https://github.com/zautner/vibeconnect/fork"]

\* script.js:99-112: the observer of the demo section, for one entry.
DemoIntersect(st, isIntersecting) ==
    IF isIntersecting
    THEN AddTimer([st EXCEPT !.typing = "none"], TypingTimer)
    ELSE st

\* Mutant: an entry that left the viewport hides its target again.
FadeInReversing(st, inter, outer) ==
    [st EXCEPT !.fade = (@ \cup inter) \ outer]

\* script.js:136-143: fadeInObserver's callback for the entries whose targets
\* are inter (isIntersecting) and outer (not intersecting).
FadeIn(st, inter, outer) == [st EXCEPT !.fade = @ \cup inter]

\* Mutant: slice(0, n), the first n elements.
SliceFirst(q, n) == IF Len(q) <= n THEN q ELSE SubSeq(q, 1, n)

\* Array.prototype.slice(-n): the last n elements.
SliceLast(q, n) == IF Len(q) <= n THEN q ELSE SubSeq(q, Len(q) - n + 1, Len(q))

\* Array.prototype.join('')
RECURSIVE Join(_)
Join(q) == IF q = <<>> THEN "" ELSE Head(q) \o Join(Tail(q))

\* script.js:154-165: the key-sequence keydown listener.
konamiListener(st, key) ==
    LET kept == SliceLast(Append(st.konami, key), KonamiWindow)
        hit == Join(kept) = Join(konamiSequence)
    IN  IF hit
        THEN AddTimer([st EXCEPT !.konami = kept, !.fired = TRUE,
                                 !.body = "rainbow 2s linear infinite"],
                      RainbowTimer)
        ELSE [st EXCEPT !.konami = kept]

\* Mutant: the toggle also drops the sidebar's active marker.
ToggleClickUnmarks(st) ==
    [st EXCEPT !.sidebar = ~@, !.item = {}]

\* script.js:190-192
ToggleClick(st) == [st EXCEPT !.sidebar = ~@]

\* script.js:196-198, after the window took width w.
Resize(st, w) ==
    [st EXCEPT !.width = w,
               !.toggle = IF w <= Breakpoint THEN "block" ELSE "none"]

\* script.js:217-234
MouseEnter(st, b) ==
    IF b \in st.sparkles THEN st
    ELSE AddTimer([st EXCEPT !.sparkles = @ \cup {b}], <<"sparkle", b>>)

\* The callbacks of lines 107, 124-126, 162 and 233.
TimeoutCallback(st, t) ==
    LET s1 == [st EXCEPT !.timers[t] = @ - 1]
    IN  CASE t[1] = "step"    -> [s1 EXCEPT !.steps[t[2]] = "shown"]
          [] t[1] = "typing"  -> [s1 EXCEPT !.typing = ""]
          [] t[1] = "rainbow" -> [s1 EXCEPT !.body = ""]
          [] t[1] = "sparkle" -> [s1 EXCEPT !.sparkles = @ \ {t[2]}]

\* script.js:241-259 as a function of the page: the section the navigation
\* listener switches to, as a sequence of at most one id.
NavCalls(st, key) ==
    LET n == Len(sections)
        nxt == nextIndex(key, indexOf(currentSection(st.sect)), n)
    IN  IF key \in {"ArrowLeft", "ArrowRight"} /\ nxt + 1 \in 1..n
        THEN <<sections[nxt + 1]>> ELSE <<>>

\* A handler of lines 71-238 runs and leaves the page st; key tells, for a
\* notification of fadeInObserver, whether an entry left the viewport.
Cosmetic(key, st) ==
    /\ pc = "ready"
    /\ \A t \in TimerKinds : st.timers[t] <= MaxTimers
    /\ Commit(st)
    /\ calls' = <<>>
    /\ ev' = Event("cosmetic", key, NoIndex)
    /\ run' = NoRun
    /\ UNCHANGED <<dom, journey, pending, pc, typist>>

ClickHeaderButton(b) == Cosmetic("", HeaderClick(View, b))

DemoNotify(isIntersecting) ==
    /\ getElementById("demo")
    /\ Cosmetic("", DemoIntersect(View, isIntersecting))

\* One notification of fadeInObserver; it is a "leave" when it reports that
\* an element already revealed left the viewport.
FadeNotify(inter, outer) ==
    /\ inter \cap outer = {}
    /\ inter \cup outer # {}
    /\ Cosmetic(IF outer \cap fadeStyle = {} THEN "enter" ELSE "leave",
                FadeIn(View, inter, outer))

ClickToggle == Cosmetic("", ToggleClick(View))

ResizeTo(w) ==
    /\ w # innerWidth
    /\ Cosmetic("", Resize(View, w))

HoverPrimary(b) == Cosmetic("", MouseEnter(View, b))

\* A timeout elapses. The step reveals were started together with delays
\* 100 * index, so they run in index order.
Timeout(t) ==
    /\ timers[t] > 0
    /\ t[1] = "step" => \A i \in WorkflowSteps : i < t[2] => timers[<<"step", i>>] = 0
    /\ Cosmetic("", TimeoutCallback(View, t))

\* The typist types attempts at the sequence: at the start of an attempt
\* they choose the position w of the one wrong key, or 0 for none; start is
\* the section that was active then.
TypistNext(w) ==
    IF typist.pos \in {0, Len(konamiSequence)}
    THEN [pos |-> 1, wrongAt |-> w,
          failed |-> typist.failed \/ typist.wrongAt # 0,
          start |-> currentSection(sectActive)]
    ELSE [typist EXCEPT !.pos = @ + 1]

TypistKey(t) == IF t.pos = t.wrongAt THEN WrongKey ELSE konamiSequence[t.pos]

\* A keydown event of the typist's next key. The listener of lines 154-165
\* runs first; with both, the listener of lines 241-259 follows it, as
\* registered.
KeyEvent(op, w, both) ==
    LET t == TypistNext(w)
        key == TypistKey(t)
        heard == konamiListener(View, key)
        ids == IF both THEN NavCalls(heard, key) ELSE <<>>
    IN  /\ pc = "ready"
        /\ w \in 0..Len(konamiSequence)
        /\ typist.pos \in {0, Len(konamiSequence)} \/ w = typist.wrongAt
        /\ heard.timers[RainbowTimer] <= MaxTimers
        /\ typist' = t
        /\ Commit(CallAll(heard, ids))
        /\ calls' = ids
        /\ ev' = Event(op, key, IF key \in {"ArrowLeft", "ArrowRight"}
                                THEN indexOf(currentSection(sectActive))
                                ELSE NoIndex)
        /\ run' = NoRun
        /\ UNCHANGED <<dom, journey, pending, pc>>

\* The key-sequence listener alone hears a key of a faultless typist.
MatcherKey == KeyEvent("konami", 0, FALSE)

\* A key press reaches both keydown listeners.
KeyPress(w) == KeyEvent("keydown", w, TRUE)

Next ==
    \/ Load
    \/ \E id \in SectionIds : ClickChannelItem(id)
    \/ HashChange
    \/ \E href \in AnchorHrefs : ClickAnchor(href)
    \/ \E key \in Keys : KeyDown(key)
    \/ \E d \in {-1, 1} : Traverse(d)
    \/ \E f \in TypedFragments : EditFragment(f)
    \/ \E y \in ScrollOffsets : Scroll(y)

Spec == Init /\ [][Next]_vars

\* The complete page without a fragment.
Complete ==
    /\ channelNameEl
    /\ messagesEl
    /\ hist = <<<<>>>>

\* The key presses of a typist on the complete page.
InitKeys == Init /\ Complete

NextKeys ==
    \/ Load
    \/ \E w \in 0..Len(konamiSequence) : KeyPress(w)
    \/ Timeout(RainbowTimer)

SpecKeys == InitKeys /\ [][NextKeys]_vars

\* The handlers of lines 71-238 on the complete page of MaxSections sections,
\* rendered with its first section active.
InitFx ==
    /\ \E w \in Widths : Rendered(w)
    /\ journey = "free"
    /\ Complete
    /\ Len(sections) = MaxSections
    /\ sectActive = {sections[1]}

NextFx ==
    \/ Load
    \/ \E b \in HeaderButtons : ClickHeaderButton(b)
    \/ \E i \in BOOLEAN : DemoNotify(i)
    \/ \E inter, outer \in SUBSET FadeEls : FadeNotify(inter, outer)
    \/ MatcherKey
    \/ ClickToggle
    \/ \E w \in Widths : ResizeTo(w)
    \/ \E b \in PrimaryButtons : HoverPrimary(b)
    \/ \E t \in TimerKinds : Timeout(t)

SpecFx == InitFx /\ [][NextFx]_vars

\* A Back journey: the user browses a page loaded without a fragment by
\* sidebar clicks, fragment edits and traversals, and from some moment on
\* presses nothing but Back, while the browser dispatches every hashchange it
\* has queued.
InitBack ==
    /\ Rendered(Breakpoint + 1)
    /\ journey = "browsing"
    /\ hist = <<<<>>>>

StartBacking ==
    /\ pc # "loading"
    /\ journey = "browsing"
    /\ journey' = "backing"
    /\ UNCHANGED <<dom, cosmetic, itemActive, sectActive, otherActive, label,
                   scrollTop, hist, pos, pending, pc, ev, calls, threw, run,
                   effects>>

Back == journey = "backing" /\ Traverse(-1)

NextBack ==
    \/ Load
    \/ journey = "browsing" /\ \E id \in SectionIds : ClickChannelItem(id)
    \/ journey = "browsing" /\ \E f \in TypedFragments : EditFragment(f)
    \/ journey = "browsing" /\ \E d \in {-1, 1} : Traverse(d)
    \/ HashChange
    \/ StartBacking
    \/ Back

\* The user keeps pressing Back and the browser keeps dispatching.
SpecBack ==
    InitBack /\ [][NextBack]_vars /\ WF_vars(Back) /\ WF_vars(HashChange)

\* ------------------------------------------------------------------ claims
Last(q) == q[Len(q)]

\* 0-based index of the active section, -1 when none is active.
ActiveIndex == indexOf(currentSection(sectActive))

\* C1: after switchSection(S) for a Section id S (an id with a content panel
\* and a channel item), exactly one channel item and exactly one content
\* section carry 'active', and both are those of S.
C1_SwitchActivatesExactlyS ==
    (calls # <<>> /\ Last(calls) \in SectionIds /\ Last(calls) \in channelItems)
        => (itemActive = {Last(calls)} /\ sectActive = {Last(calls)})

C1_Witness ==
    /\ ev.op = "click"
    /\ calls = <<"about">>
    /\ itemActive = {"about"}
    /\ sectActive = {"about"}

\* C2: switchSection with an id that matches no Section is a no-op: the
\* active channel items and the active sections after the call are those
\* before it, whichever handler made the call.
C2_UnknownIdIsNoOp ==
    [][(calls' # <<>> /\ \A i \in 1..Len(calls') : calls'[i] \notin SectionIds)
          => (itemActive' = itemActive /\ sectActive' = sectActive)]_vars

\* C3: in every reachable state the active channel item and the active
\* content section name the same Section, or neither exists.
C3_SidebarMatchesPanel ==
    /\ \A i \in itemActive : \A s \in sectActive : i = s
    /\ (itemActive = {}) <=> (sectActive = {})

C3_Witness ==
    /\ ev.op = "keydown"
    /\ pos = MaxHist
    /\ itemActive = {"demo"}
    /\ sectActive = {"demo"}

\* C4: at most one content section is active in every reachable state.
C4_AtMostOneActiveSection == Cardinality(sectActive) <= 1

C4_Witness ==
    /\ ev.op = "hashchange"
    /\ calls = <<"demo">>
    /\ Cardinality(sectActive) = 1
    /\ Len(sections) >= 2

\* C5: every call switchSection(S) pushes exactly one history entry with
\* fragment #S, so the address-bar fragment is #S right after the call, and
\* the push queues no hashchange.
C5_EveryCallPushesEntry ==
    [][(Len(calls') = 1)
          => /\ hist' = AddEntry(View, <<"#", calls'[1]>>).hist
             /\ pos' = AddEntry(View, <<"#", calls'[1]>>).pos
             /\ hist'[pos'] = <<"#", calls'[1]>>
             /\ pending' <= pending]_vars

\* C6: history traversal never truncates or adds entries: handling the
\* hashchange raised by a Back traversal leaves the history stack and the
\* current position as the traversal left them, so the forward entry remains.
C6_BackKeepsForwardEntry ==
    [][(ev.op = "back" /\ ev'.op = "hashchange")
          => (hist' = hist /\ pos' = pos)]_vars

\* C7: with N sections and the section at index i active, ArrowRight makes
\* the section at (i+1) mod N the active one and ArrowLeft the one at
\* (i-1+N) mod N.
C7_ArrowKeysStepCyclically ==
    (ev.op = "keydown" /\ ev.cur >= 0)
        => /\ Cardinality(sectActive) = 1
           /\ ActiveIndex = IF ev.key = "ArrowRight"
                            THEN (ev.cur + 1) % Len(sections)
                            ELSE (ev.cur - 1 + Len(sections)) % Len(sections)

C7_Witness ==
    /\ ev.op = "keydown"
    /\ ev.key = "ArrowLeft"
    /\ ev.cur = 0
    /\ Len(sections) = 3
    /\ sectActive = {"about"}

\* C8: from any active section, N consecutive ArrowRight presses with no
\* other event in between leave the original section active again, and
\* fewer than N presses do not.
C8_FullCycleReturns ==
    (run.count > 0 /\ run.origin # "null")
        => /\ (run.count = Len(sections)) => (sectActive = {run.origin})
           /\ (run.count < Len(sections)) => (run.origin \notin sectActive)

C8_Witness ==
    /\ Len(sections) = 3
    /\ run = [origin |-> "demo", count |-> 3]
    /\ sectActive = {"demo"}
    /\ channelNameEl /\ messagesEl

C10_LoadWithKnownFragment ==
    (ev.op = "load" /\ IdOf(Slice1(hist[1])) \in SectionIds)
        => /\ sectActive = {IdOf(Slice1(hist[1]))}
           /\ itemActive = {IdOf(Slice1(hist[1]))}

C10_Witness ==
    /\ ev.op = "load"
    /\ hist[1] = <<"#", "demo">>
    /\ "demo" \in SectionIds
    /\ sectActive = {"demo"}
    /\ itemActive = {"demo"}

\* C11: on the initial load or a hashchange whose fragment is empty or names
\* no element, switchSection is not called and the active channel item, the
\* active section, the label, the scroll offset and the history are left as
\* they were.
C11_UnmatchedFragmentIgnored ==
    [][((ev'.op = "load" \/ ev'.op = "hashchange")
          /\ ~getElementById(IdOf(Slice1(LocationHash))))
          => /\ calls' = <<>>
             /\ ~threw'
             /\ UNCHANGED <<itemActive, sectActive, otherActive, label,
                            scrollTop, hist, pos>>]_vars

C11_Witness ==
    /\ ev.op = "hashchange"
    /\ LocationHash = <<"#", "nosuch">>
    /\ calls = <<>>
    /\ sectActive = {"demo"}
    /\ scrollTop = 120
    /\ label = "# live-demo"

\* C12: every id the hashchange adapter passes to switchSection names a
\* content section, not merely some element of the page with that id.
C12_AdapterPassesOnlySections ==
    (ev.op = "load" \/ ev.op = "hashchange")
        => \A i \in 1..Len(calls) : calls[i] \in SectionIds

\* C14: on a page without the channel-name label or without the message
\* container, switchSection(S) for a Section id S raises no error, sets the
\* markers of S and pushes the entry #S.
C14_AbsentOptionalElementSkipped ==
    (Len(calls) = 1 /\ calls[1] \in SectionIds /\ (~channelNameEl \/ ~messagesEl))
        => /\ ~threw
           /\ itemActive = {calls[1]}
           /\ sectActive = {calls[1]}
           /\ LocationHash = <<"#", calls[1]>>

\* C15: the effects of switchSection (clear, mark item, mark panel, reset
\* scroll, update label, push entry) happen in that order inside the step of
\* the handler that made the call: no state between two handlers has the
\* markers cleared and the called Section not yet marked, and the push queues
\* no hashchange through which switchSection would run again.
EffectOrder == <<"clear", "item", "panel", "scroll", "label", "push">>

Rank(e) == CHOOSE k \in 1..Len(EffectOrder) : EffectOrder[k] = e

C15_EffectsInOrderOneStep ==
    [][(calls' # <<>>)
          => /\ effects' # <<>>
             /\ effects'[1] = "clear"
             /\ \A i \in 1..(Len(effects') - 1) :
                   Rank(effects'[i]) < Rank(effects'[i + 1])
             /\ (Last(calls') \in SectionIds)
                   => /\ {"item", "panel"} \subseteq
                            {effects'[i] : i \in 1..Len(effects')}
                      /\ itemActive' = {Last(calls')}
                      /\ sectActive' = {Last(calls')}
             /\ pending' <= pending]_vars

C15_Witness ==
    /\ ev.op = "click"
    /\ calls = <<"hero">>
    /\ effects = EffectOrder
    /\ pending = 1

\* C17: switchSection(id) sets the channel-name label to the title the
\* mapping declares for id and leaves it unchanged for an id the mapping does
\* not declare.
C17_LabelFollowsRegistry ==
    [][(Len(calls') = 1 /\ channelNameEl)
          => label' = IF calls'[1] \in DOMAIN channelNames
                      THEN channelNames[calls'[1]]
                      ELSE label]_vars

\* C19: one click on a channel item, on the demo link or on an in-page
\* anchor, or one arrow-key press, makes exactly one switchSection call.
C19_OneCallPerUserAction ==
    ((ev.op = "click" \/ ev.op = "keydown") /\ calls # <<>>) => Len(calls) = 1

\* C20: when no hashchange is pending and the address-bar fragment names a
\* Section, that Section is the active one.
C20_FragmentNamesActiveSection ==
    (pc # "loading" /\ pending = 0 /\ IdOf(Slice1(LocationHash)) \in SectionIds)
        => sectActive = {IdOf(Slice1(LocationHash))}

\* C13: a handler other than the router's (header buttons, intersection
\* callbacks, timers, key-sequence matcher, menu toggle, resize, hover) leaves
\* the active item, the active panel, the label and the history unchanged.
C13_CosmeticHandlersKeepRouterState ==
    [][ev'.op \in {"cosmetic", "konami"} =>
          UNCHANGED <<itemActive, sectActive, otherActive, label, hist, pos>>]_vars

C13_Witness ==
    /\ ev.op = "cosmetic"
    /\ sidebarOpen
    /\ opened # ""
    /\ konamiCode = konamiSequence
    /\ sparkles # {}
    /\ fadeStyle = FadeEls
    /\ innerWidth = Breakpoint
    /\ typingAnimation = "none"
    /\ \A i \in WorkflowSteps : stepStyle[i] = "shown"
    /\ itemActive = {"hero"}
    /\ sectActive = {"hero"}
    /\ label = "# welcome"
    /\ hist = <<<<>>>>

\* C16: a key press starts the body animation exactly when the last 10 keys
\* are the sequence, element by element: a faultless attempt triggers once,
\* at its last key; an attempt with one wrong key does not trigger; a
\* faultless attempt after a failed one triggers; the window never holds more
\* than 10 keys.
C16_KonamiTriggersOnExactWindow ==
    ev.op = "keydown" =>
        /\ Len(konamiCode) <= KonamiWindow
        /\ fired <=> konamiCode = konamiSequence
        /\ typist.pos = Len(konamiSequence) => (fired <=> typist.wrongAt = 0)
        /\ typist.pos < Len(konamiSequence) => ~fired
        /\ fired => bodyAnimation = "rainbow 2s linear infinite"

C16_Witness ==
    /\ ev.op = "keydown"
    /\ fired
    /\ typist.failed
    /\ typist.pos = Len(konamiSequence)
    /\ typist.wrongAt = 0

\* C18: an element revealed by fadeInObserver stays revealed in every later
\* state, also after a notification that it left the viewport, and repeating
\* a notification changes nothing.
C18_FadeRevealNeverReversed ==
    /\ [][fadeStyle \subseteq fadeStyle']_vars
    /\ [](\A inter, outer \in SUBSET FadeEls :
             LET once == FadeIn(View, inter, outer)
             IN  FadeIn(once, inter, outer) = once)

C18_Witness ==
    /\ ev.op = "cosmetic"
    /\ ev.key = "leave"
    /\ fadeStyle = FadeEls

\* C23: for every Section id S, calling switchSection(S) twice in a row
\* leaves the same active item, active panel, label, scroll offset and
\* fragment as calling it once; only the history entries may differ.
Fragment(st) == st.hist[st.pos]

ViewState(st) ==
    <<st.item, st.sect, st.other, st.label, st.scroll, Fragment(st)>>

C23_SwitchTwiceSameView ==
    \A S \in SectionIds :
        LET once == switchSection(View, S)
            twice == switchSection(once, S)
        IN  /\ ViewState(twice) = ViewState(once)
            /\ twice.threw = once.threw

\* The demo link's two listeners have called switchSection('demo') twice in
\* a row on a page that showed another section.
C23_Witness ==
    /\ calls = <<"demo", "demo">>
    /\ ~threw
    /\ itemActive = {"demo"}
    /\ sectActive = {"demo"}
    /\ label = "# live-demo"
    /\ scrollTop = 0
    /\ pos = Len(hist)
    /\ pos > 1
    /\ hist[pos] = <<"#", "demo">>
    /\ hist[pos - 1] = <<"#", "demo">>

\* C22: every key press reaches the key-sequence listener and the navigation
\* listener, and a faultless attempt at the sequence typed while a Section is
\* active ends with that same Section active, for every number of sections
\* and every starting section.
C22_SequenceReturnsToStart ==
    ev.op = "keydown" =>
        /\ Last(konamiCode) = ev.key
        /\ (ev.key \in {"ArrowLeft", "ArrowRight"}) <=> (calls # <<>>)
        /\ (/\ typist.pos = Len(konamiSequence)
            /\ typist.wrongAt = 0
            /\ typist.start # "null")
              => /\ sectActive = {typist.start}
                 /\ itemActive = {typist.start}

C22_Witness ==
    /\ ev.op = "keydown"
    /\ fired
    /\ typist.pos = Len(konamiSequence)
    /\ typist.wrongAt = 0
    /\ Len(sections) = MaxSections
    /\ typist.start = "demo"
    /\ sectActive = {"demo"}
    /\ hist[pos] = <<"#", "demo">>
    /\ hist[pos - 1] = <<"#", "hero">>

\* C21: once the user presses nothing but Back, the oldest entry of the
\* session is reached after finitely many traversals, although the hashchange
\* listener pushes an entry again after each traversal that changed the
\* fragment: every step of the journey lowers BackRank, a natural number,
\* and above the oldest entry a step is always possible.
Changes(h, p) == Cardinality({i \in 1..(p - 1) : h[i] # h[i + 1]})

\* What a Back journey has left to do: fragment changes below the current
\* entry, queued hashchange events, entries below the current one.
BackRank == 3 * Changes(hist, pos) + 2 * pending + pos

\* The guards of Back and of HashChange.
BackEnabled ==
    /\ pos - 1 \in 1..Len(hist)
    /\ pending + (IF hist[pos - 1] # hist[pos] THEN 1 ELSE 0) <= MaxPending

HashChangeEnabled == pending > 0

C21_BackReachesOldest ==
    /\ [][(journey = "backing" /\ journey' = "backing")
              => BackRank' < BackRank]_vars
    /\ []((journey = "backing" /\ pos > 1)
              => /\ BackEnabled \/ HashChangeEnabled
                 /\ BackRank > 1)

\* The oldest of three entries is reached after the listener pushed the
\* middle one again.
C21_Witness ==
    /\ journey = "backing"
    /\ ev.op = "back"
    /\ pos = 1
    /\ Len(hist) = MaxHist + 1
    /\ hist[2] = hist[3]
    /\ hist[1] # hist[2]
    /\ pending = 1

====
